---- MODULE Spec2Model ----
(***************************************************************************)
(* The per-network categorizer Manager of                                  *)
(* blockchain/evm/categorizer/manager.go: the subscriber goroutine, the    *)
(* live dispatcher goroutine, the registration loop of Start and one       *)
(* catch-up goroutine per OldWorkerGroup, interleaved at the granularity   *)
(* of their accesses to the manager's unsynchronised shared fields.        *)
(***************************************************************************)
EXTENDS Integers, Sequences, FiniteSets, TLC

\* ---------------------------------------------------------------- bounds
NumWorkers == 2
MaxBlock == 3
MaxRequests == 2
MaxDeliveries == 2
MaxStart == 2
MaxFeed == 3
MaxFairFeed == 1

Workers == 1..NumWorkers
Blocks == 0..MaxBlock
GroupIds == 1..MaxRequests
StartBlocks == 0..MaxStart
NoGroup == 0

VARIABLES
    subscribed_earliest_block_number,   \* Manager field, 0 = unset
    subscribed_blocks,                  \* Manager field: queue of block numbers
    current_workers,                    \* Manager field: sequence of workers
    old_categorizers,                   \* Manager field: sequence of group ids
    groups,                             \* group id -> [block_number, workers]
    cbn,                                \* worker -> smartcontract.CategorizedBlockNumber
    reg,                                \* worker -> "none" | "pending" | "done"
    start_block,                        \* worker -> watermark it was registered with
    requests,                           \* number of registration requests received
    deliveries,                         \* number of broadcasts pushed so far
    first_accepted,                     \* history: << >>, or << block of the first broadcast pushed >>
    msg,                                \* history: the last broadcast received, [block, own]
    start_pc,                           \* position of Start
    start_old, start_cur, start_group,  \* locals of Start: old_workers, current_workers, group
    start_rd,                           \* slice header Start read before its append
    eng_pc,                             \* group id -> position of its catch-up goroutine
    eng_fetch,                          \* group id -> [from, to, addrs] of the fetched all_logs
    eng_rd,                             \* group id -> slices the goroutine read before a write
    disp_pc,                            \* position of categorize_current_smartcontracts
    applied,                            \* history: worker -> block -> times its logs were applied
    promotions,                         \* history: group id -> times add_current_workers(group.workers) ran
    live_history,                       \* history: "stale_call" = the dispatcher called categorize for a block <= watermark,
                                        \*          "skip_applied" = it skipped a block already applied to the worker
    req_of,                             \* history: worker -> request that carried it
    wire,                               \* a Reply/Broadcast on its way through ToBytes and Parse*
    svc                                 \* a Service: its fields and the position of Start

vars == << subscribed_earliest_block_number, subscribed_blocks, current_workers,
           old_categorizers, groups, cbn, reg, start_block, requests, deliveries,
           first_accepted, msg,
           start_pc, start_old, start_cur, start_group, start_rd,
           eng_pc, eng_fetch, eng_rd, disp_pc,
           applied, promotions, live_history, req_of, wire, svc >>

\* ---------------------------------------------------------------- helpers
Max(S) == CHOOSE x \in S : \A y \in S : y <= x
Min(S) == CHOOSE x \in S : \A y \in S : x <= y
Range(s) == { s[i] : i \in 1..Len(s) }
NoDup(s) == \A i, j \in 1..Len(s) : i # j => s[i] # s[j]

\* The chain the feed and the historical source both serve: the addresses with
\* a log in each block (address 1 in every block, address w in every w-th block).
chain == [b \in Blocks |-> { w \in Workers : b % w = 0 }]

\* block.GetForSmartcontract(address): the block's logs of that address.
GetForSmartcontract(b, w) == IF w \in chain[b] THEN {b} ELSE {}

\* spaghetti_log.RemoteLogFilter(socket, from, addresses): the logs of the
\* addresses in the page of blocks [from, to].
RemoteLogFilter(from, to, addrs) ==
    { l \in addrs \X (from..to) : l[2] \in Blocks /\ l[1] \in chain[l[2]] }

\* spaghetti_log.FilterByAddress(all_logs, address), as block numbers.
FilterByAddress(all_logs, w) == { l[2] : l \in { x \in all_logs : x[1] = w } }

\* mutant: the watermark becomes the highest block of the batch, whatever it was.
categorize_unguarded(wm, logs) == Max({0} \cup logs)

\* worker.categorize(logs): logs at or below the watermark are not applied
\* again; the result is the new watermark.
FreshLogs(wm, logs) == { b \in logs : b > wm }
categorize(wm, logs) == Max({wm} \cup FreshLogs(wm, logs))

\* EvmWorkers.Sort: ascending by CategorizedBlockNumber (ties by address).
Sort(S, wm) ==
    CHOOSE s \in [1..Cardinality(S) -> S] :
        /\ \A i, j \in 1..Cardinality(S) : i # j => s[i] # s[j]
        /\ \A i, j \in 1..Cardinality(S) :
              i < j => \/ wm[s[i]] < wm[s[j]]
                       \/ (wm[s[i]] = wm[s[j]] /\ s[i] < s[j])

\* EvmWorkers.Split(block_number): (older than block_number, the rest).
SplitOld(ws, wm, block_number) == SelectSeq(ws, LAMBDA w : wm[w] < block_number)
SplitCurrent(ws, wm, block_number) == SelectSeq(ws, LAMBDA w : wm[w] >= block_number)

\* EvmWorkers.EarliestBlockNumber.
EarliestBlockNumber(ws, wm) ==
    IF Len(ws) = 0 THEN 0 ELSE Min({ wm[ws[i]] : i \in 1..Len(ws) })

\* OldWorkerGroups.FirstGroupGreaterThan(block_number): the listed group whose
\* cursor is the largest cursor still <= block_number (the first such in list
\* order), or NoGroup.
FirstGroupGreaterThan(list, grp, block_number) ==
    LET ok == { i \in 1..Len(list) : grp[list[i]].block_number <= block_number }
        best == { i \in ok : \A j \in ok :
                     grp[list[j]].block_number <= grp[list[i]].block_number }
    IN  IF ok = {} THEN NoGroup ELSE list[Min(best)]

\* OldWorkerGroups.Delete(group).
Delete(list, g) == SelectSeq(list, LAMBDA x : x # g)

\* mutant: the result of append is dropped.
add_current_workers_dropped(cw, ws) == cw

\* Manager.add_current_workers: append(manager.current_workers, workers...)
add_current_workers(cw, ws) == cw \o ws

\* Manager.GetSmartcontractAddresses: every group's workers, then the live ones.
GetSmartcontractAddresses ==
    UNION { Range(groups[old_categorizers[i]].workers) : i \in 1..Len(old_categorizers) }
        \cup Range(current_workers)

\* mutant: the batch is routed by the baseline instead of its earliest block.
RoutingBlockNumberBaseline(old_block_number, block_number) == block_number

\* Start, line 155: the block number handed to FirstGroupGreaterThan.
RoutingBlockNumber(old_block_number, block_number) == old_block_number

\* mutant: the fetch starts at the cursor itself.
BlockNumberFromCursor(cursor) == cursor

\* categorize_old_smartcontracts: block_number_from := group.block_number + 1
BlockNumberFrom(cursor) == cursor + 1

\* mutant: a round without logs leaves the cursor where it was.
InitialBlockNumberToCursor(block_number_from) == block_number_from - 1

\* categorize_old_smartcontracts, line 188: block_number_to := block_number_from
InitialBlockNumberTo(block_number_from) == block_number_from

\* mutant: the promotion test is inverted.
ShouldPromoteBelow(block_number_to, baseline) == block_number_to <= baseline

\* categorize_old_smartcontracts: the promotion test of a round.
ShouldPromote(block_number_to, baseline) == block_number_to >= baseline

\* mutant: a block equal to the watermark is not skipped.
SkipBlockStrict(block_number, watermark) == block_number < watermark

\* categorize_current_smartcontracts: the per-worker skip of a block.
SkipBlock(block_number, watermark) == block_number <= watermark

\* mutant: the queue grows at its head.
PushFront(queue, block) == << block >> \o queue

\* data_type.Queue.Push: the block becomes the last element of the queue.
Push(queue, block) == Append(queue, block)

\* mutant: the worker is handed every log of the block.
LiveLogsOfBlock(b, w) == UNION { GetForSmartcontract(b, x) : x \in Workers }

\* categorize_current_smartcontracts, line 247: the logs handed to a worker are
\* the block's logs of the worker's own address.
LiveLogs(b, w) == GetForSmartcontract(b, w)

\* mutant: the baseline block itself is dropped as already seen.
DiscardBroadcastOrEqual(block_number, baseline) == baseline # 0 /\ block_number <= baseline

\* subscribe: the broadcast is dropped as already seen.
DiscardBroadcast(block_number, baseline) == baseline # 0 /\ block_number < baseline

\* subscribe: the broadcast establishes the baseline.
SetsBaseline(baseline) == baseline = 0

\* mutant: Start does not wait for the subscriber.
StartNeverWaits(baseline) == FALSE

\* Start, line 107: the test that keeps Start in its waiting loop.
StartMustWait(baseline) == baseline = 0

\* mutant: a failed fetch round goes on to apply and test for promotion.
AfterFetchErrorApply == "apply"

\* categorize_old_smartcontracts, line 184: where the goroutine goes after a
\* failed fetch (continue).
AfterFetchError == "fetch"

\* mutant: the break after promotion is missing.
AfterPromotionNoBreak == "fetch"

\* categorize_old_smartcontracts: where the goroutine goes after promoting (break).
AfterPromotion == "delete_r"

EmptyGroup == [block_number |-> 0, workers |-> << >>]
NoFetch == [from |-> 0, to |-> 0, addrs |-> {}]
NoMsg == [block |-> 0, own |-> FALSE]
NoRead == [cw |-> << >>, gw |-> << >>, oc |-> << >>]
NoWire == [pc |-> "none"]
NoService == [pc |-> "none"]

\* ---------------------------------------------------------------- Init
\* The manager after NewManager.
ManagerInit ==
    /\ subscribed_earliest_block_number = 0
    /\ subscribed_blocks = << >>
    /\ current_workers = << >>
    /\ old_categorizers = << >>
    /\ groups = [g \in GroupIds |-> EmptyGroup]
    /\ cbn = [w \in Workers |-> 0]
    /\ reg = [w \in Workers |-> "none"]
    /\ start_block = [w \in Workers |-> 0]
    /\ requests = 0
    /\ deliveries = 0
    /\ start_pc = "wait"
    /\ start_old = << >>
    /\ start_cur = << >>
    /\ start_group = NoGroup
    /\ start_rd = << >>
    /\ eng_pc = [g \in GroupIds |-> "none"]
    /\ eng_fetch = [g \in GroupIds |-> NoFetch]
    /\ eng_rd = [g \in GroupIds |-> NoRead]
    /\ disp_pc = "idle"
    /\ applied = [w \in Workers |-> [b \in Blocks |-> 0]]
    /\ promotions = [g \in GroupIds |-> 0]
    /\ live_history = {}
    /\ req_of = [w \in Workers |-> 0]
    /\ first_accepted = << >>
    /\ msg = NoMsg

\* The manager after NewManager; no message is being converted, no Service exists.
Init ==
    /\ wire = NoWire
    /\ svc = NoService
    /\ ManagerInit

\* ---------------------------------------------------------------- subscribe
SubVars == << deliveries, first_accepted, msg >>
ManagerState == << subscribed_earliest_block_number, subscribed_blocks, current_workers,
                   old_categorizers, groups >>
StartVars == << start_pc, start_old, start_cur, start_group, start_rd, requests, reg,
                start_block, req_of >>
EngineVars == << eng_pc, eng_fetch, eng_rd, promotions >>
History == << applied, live_history >>
Other == << wire, svc >>

\* subscribe, lines 326-379: one broadcast of block b, of this network or not,
\* is received: network check, baseline, push.
subscribe(b, own, limit) ==
    LET baseline == subscribed_earliest_block_number
        pushes == own /\ ~DiscardBroadcast(b, baseline)
    IN  /\ pushes => deliveries < limit
        /\ deliveries' = IF pushes THEN deliveries + 1 ELSE deliveries
        /\ IF pushes
           THEN /\ subscribed_earliest_block_number' =
                     IF SetsBaseline(baseline) THEN b ELSE baseline
                /\ subscribed_blocks' = Push(subscribed_blocks, b)
           ELSE UNCHANGED << subscribed_earliest_block_number, subscribed_blocks >>
        /\ first_accepted' = IF pushes /\ first_accepted = << >> THEN << b >> ELSE first_accepted

\* The subscriber goroutine as one task of the running manager.
Broadcast(b, own) ==
    /\ subscribe(b, own, MaxDeliveries)
    /\ UNCHANGED << msg, current_workers, old_categorizers, groups, cbn, StartVars,
                    EngineVars, disp_pc, History >>
    /\ UNCHANGED Other

\* ---------------------------------------------------------------- Start
\* Start, lines 105-112: wait until the subscriber has set the baseline.
StartWait ==
    /\ start_pc = "wait"
    /\ ~StartMustWait(subscribed_earliest_block_number)
    /\ start_pc' = "recv"
    /\ UNCHANGED << subscribed_earliest_block_number, subscribed_blocks,
                    current_workers, old_categorizers, groups, cbn, SubVars,
                    start_old, start_cur, start_group, start_rd, requests, reg,
                    start_block, req_of, EngineVars, disp_pc, History >>
    /\ UNCHANGED Other

\* Start, lines 133-155: a request carrying the workers S with watermarks st is
\* received, sorted, split at the baseline and routed to a group.
Route(S, st) ==
    /\ start_pc = "recv"
    /\ requests < MaxRequests
    /\ requests' = requests + 1
    /\ cbn' = [w \in Workers |-> IF w \in S THEN st[w] ELSE cbn[w]]
    /\ start_block' = [w \in Workers |-> IF w \in S THEN st[w] ELSE start_block[w]]
    /\ reg' = [w \in Workers |-> IF w \in S THEN "pending" ELSE reg[w]]
    /\ req_of' = [w \in Workers |-> IF w \in S THEN requests + 1 ELSE req_of[w]]
    /\ LET new_workers == Sort(S, cbn')
           block_number == subscribed_earliest_block_number
           old_workers == SplitOld(new_workers, cbn', block_number)
           old_block_number == EarliestBlockNumber(old_workers, cbn')
           group == FirstGroupGreaterThan(old_categorizers, groups,
                                          RoutingBlockNumber(old_block_number, block_number))
       IN  /\ start_old' = old_workers
           /\ start_cur' = SplitCurrent(new_workers, cbn', block_number)
           /\ start_group' = group
           /\ start_rd' = old_categorizers
           /\ start_pc' = IF group = NoGroup THEN "new_group" ELSE "add_workers"
    /\ UNCHANGED << subscribed_earliest_block_number, subscribed_blocks,
                    current_workers, old_categorizers, groups, SubVars,
                    EngineVars, disp_pc, History >>
    /\ UNCHANGED Other

\* Start, lines 156-159: NewGroup, append to old_categorizers, go engine.
StartNewGroup ==
    /\ start_pc = "new_group"
    /\ groups' = [groups EXCEPT ![requests] =
                     [block_number |-> EarliestBlockNumber(start_old, cbn),
                      workers |-> start_old]]
    /\ old_categorizers' = Append(start_rd, requests)
    /\ eng_pc' = [eng_pc EXCEPT ![requests] = "fetch"]
    /\ start_pc' = "cur_r"
    /\ start_rd' = << >>
    /\ UNCHANGED << subscribed_earliest_block_number, subscribed_blocks,
                    current_workers, cbn, SubVars, start_old, start_cur, start_group,
                    requests, reg, start_block, req_of, eng_fetch, eng_rd, promotions,
                    disp_pc, History >>
    /\ UNCHANGED Other

\* Start, lines 160-162: group.add_workers(old_workers).
StartAddWorkers ==
    /\ start_pc = "add_workers"
    /\ groups' = [groups EXCEPT ![start_group].workers = @ \o start_old]
    /\ start_pc' = "cur_r"
    /\ start_rd' = << >>
    /\ UNCHANGED << subscribed_earliest_block_number, subscribed_blocks,
                    current_workers, old_categorizers, cbn, SubVars, start_old,
                    start_cur, start_group, requests, reg, start_block, req_of,
                    EngineVars, disp_pc, History >>
    /\ UNCHANGED Other

\* Start, line 164 / add_current_workers: the read of manager.current_workers.
StartCurRead ==
    /\ start_pc = "cur_r"
    /\ start_rd' = current_workers
    /\ start_pc' = "cur_w"
    /\ UNCHANGED << subscribed_earliest_block_number, subscribed_blocks,
                    current_workers, old_categorizers, groups, cbn, SubVars, start_old,
                    start_cur, start_group, requests, reg, start_block, req_of,
                    EngineVars, disp_pc, History >>
    /\ UNCHANGED Other

\* Start, line 164 / add_current_workers: the write of manager.current_workers.
StartCurWrite ==
    /\ start_pc = "cur_w"
    /\ current_workers' = add_current_workers(start_rd, start_cur)
    /\ reg' = [w \in Workers |-> IF reg[w] = "pending" THEN "done" ELSE reg[w]]
    /\ start_pc' = "recv"
    /\ start_rd' = << >>
    /\ start_old' = << >>
    /\ start_cur' = << >>
    /\ start_group' = NoGroup
    /\ UNCHANGED << subscribed_earliest_block_number, subscribed_blocks,
                    old_categorizers, groups, cbn, SubVars, requests, start_block,
                    req_of, EngineVars, disp_pc, History >>
    /\ UNCHANGED Other

\* ---------------------------------------------------------------- catch-up
\* categorize_old_smartcontracts, lines 178-181: one fetch of the page [from, to].
EngFetch(g, to) ==
    /\ eng_pc[g] = "fetch"
    /\ eng_fetch' = [eng_fetch EXCEPT ![g] =
                        [from |-> BlockNumberFrom(groups[g].block_number),
                         to |-> to,
                         addrs |-> GetSmartcontractAddresses]]
    /\ eng_pc' = [eng_pc EXCEPT ![g] = "apply"]
    /\ UNCHANGED << ManagerState, cbn, SubVars, StartVars, eng_rd, promotions,
                    disp_pc, History >>
    /\ UNCHANGED Other

\* categorize_old_smartcontracts, lines 178-183: RemoteLogFilter returned an
\* error (all_logs is empty); nothing of the manager, the group or its workers
\* is touched.
EngFetchFail(g) ==
    /\ eng_pc[g] = "fetch"
    /\ eng_pc' = [eng_pc EXCEPT ![g] = "retry"]
    /\ eng_fetch' = [eng_fetch EXCEPT ![g] =
                        [from |-> BlockNumberFrom(groups[g].block_number),
                         to |-> groups[g].block_number,
                         addrs |-> GetSmartcontractAddresses]]
    /\ UNCHANGED << ManagerState, cbn, SubVars, StartVars, eng_rd,
                    promotions, disp_pc, History >>
    /\ UNCHANGED Other

\* categorize_old_smartcontracts, line 184: continue, the next round starts.
EngRetry(g) ==
    /\ eng_pc[g] = "retry"
    /\ eng_pc' = [eng_pc EXCEPT ![g] = AfterFetchError]
    /\ eng_fetch' = [eng_fetch EXCEPT ![g] =
                        IF AfterFetchError = "fetch" THEN NoFetch ELSE @]
    /\ UNCHANGED << ManagerState, cbn, SubVars, StartVars, eng_rd,
                    promotions, disp_pc, History >>
    /\ UNCHANGED Other

\* categorize_old_smartcontracts, lines 187-218: apply the fetched logs to the
\* group's workers, move the cursor, test for promotion.
EngApply(g) ==
    /\ eng_pc[g] = "apply"
    /\ LET f == eng_fetch[g]
           all_logs == RemoteLogFilter(f.from, f.to, f.addrs)
           ws == groups[g].workers
           logs(w) == FilterByAddress(all_logs, w)
           hit == { i \in 1..Len(ws) : logs(ws[i]) # {} }
           block_number_to ==
               IF hit = {} THEN InitialBlockNumberTo(f.from)
               ELSE categorize(cbn[ws[Max(hit)]], logs(ws[Max(hit)]))
       IN  /\ cbn' = [w \in Workers |->
                        IF w \in Range(ws) /\ logs(w) # {}
                        THEN categorize(cbn[w], logs(w)) ELSE cbn[w]]
           /\ applied' = [w \in Workers |-> [b \in Blocks |->
                        IF w \in Range(ws) /\ b \in FreshLogs(cbn[w], logs(w))
                        THEN Min({2, applied[w][b] + 1}) ELSE applied[w][b]]]
           /\ groups' = [groups EXCEPT ![g].block_number = block_number_to]
           /\ eng_pc' = [eng_pc EXCEPT ![g] =
                            IF ShouldPromote(block_number_to, subscribed_earliest_block_number)
                            THEN "promote_r" ELSE "fetch"]
    /\ eng_fetch' = [eng_fetch EXCEPT ![g] = NoFetch]
    /\ UNCHANGED << subscribed_earliest_block_number, subscribed_blocks,
                    current_workers, old_categorizers, SubVars, StartVars, eng_rd,
                    promotions, disp_pc, live_history >>
    /\ UNCHANGED Other

\* line 216 / add_current_workers(group.workers): the reads.
EngPromoteRead(g) ==
    /\ eng_pc[g] = "promote_r"
    /\ eng_rd' = [eng_rd EXCEPT ![g] =
                     [cw |-> current_workers, gw |-> groups[g].workers, oc |-> << >>]]
    /\ eng_pc' = [eng_pc EXCEPT ![g] = "promote_w"]
    /\ UNCHANGED << ManagerState, cbn, SubVars, StartVars, eng_fetch, promotions,
                    disp_pc, History >>
    /\ UNCHANGED Other

\* line 216-217 / add_current_workers(group.workers): the write, then break.
EngPromoteWrite(g) ==
    /\ eng_pc[g] = "promote_w"
    /\ current_workers' = add_current_workers(eng_rd[g].cw, eng_rd[g].gw)
    /\ promotions' = [promotions EXCEPT ![g] = Min({2, @ + 1})]
    /\ eng_rd' = [eng_rd EXCEPT ![g] = NoRead]
    /\ eng_pc' = [eng_pc EXCEPT ![g] = AfterPromotion]
    /\ UNCHANGED << subscribed_earliest_block_number, subscribed_blocks,
                    old_categorizers, groups, cbn, SubVars, StartVars, eng_fetch,
                    disp_pc, History >>
    /\ UNCHANGED Other

\* line 222: the read of manager.old_categorizers.
EngDeleteRead(g) ==
    /\ eng_pc[g] = "delete_r"
    /\ eng_rd' = [eng_rd EXCEPT ![g] = [cw |-> << >>, gw |-> << >>, oc |-> old_categorizers]]
    /\ eng_pc' = [eng_pc EXCEPT ![g] = "delete_w"]
    /\ UNCHANGED << ManagerState, cbn, SubVars, StartVars, eng_fetch, promotions,
                    disp_pc, History >>
    /\ UNCHANGED Other

\* line 222: manager.old_categorizers = old_categorizers.Delete(group).
EngDeleteWrite(g) ==
    /\ eng_pc[g] = "delete_w"
    /\ old_categorizers' = Delete(eng_rd[g].oc, g)
    /\ eng_rd' = [eng_rd EXCEPT ![g] = NoRead]
    /\ eng_pc' = [eng_pc EXCEPT ![g] = "done"]
    /\ UNCHANGED << subscribed_earliest_block_number, subscribed_blocks,
                    current_workers, groups, cbn, SubVars, StartVars, eng_fetch,
                    promotions, disp_pc, History >>
    /\ UNCHANGED Other

\* ---------------------------------------------------------------- live dispatcher
\* mutant: the dispatcher also waits while a catch-up group exists.
DispatcherWaitsForCatchUp ==
    Len(current_workers) = 0 \/ subscribed_blocks = << >> \/ old_categorizers # << >>

\* categorize_current_smartcontracts, line 235: the test that keeps the
\* dispatcher in its outer loop.
DispatcherWaits == Len(current_workers) = 0 \/ subscribed_blocks = << >>

\* categorize_current_smartcontracts, lines 232-237: leave the outer loop.
DispWake ==
    /\ disp_pc = "idle"
    /\ ~DispatcherWaits
    /\ disp_pc' = "drain"
    /\ UNCHANGED << ManagerState, cbn, SubVars, StartVars, EngineVars, History >>
    /\ UNCHANGED Other

\* categorize_current_smartcontracts, lines 240-265: pop one block and pass it
\* to every live worker.
DispBlock ==
    /\ disp_pc = "drain"
    /\ subscribed_blocks # << >>
    /\ LET b == Head(subscribed_blocks)
           live == Range(current_workers)
           takes(w) == w \in live /\ ~SkipBlock(b, cbn[w])
       IN  /\ subscribed_blocks' = Tail(subscribed_blocks)
           /\ cbn' = [w \in Workers |->
                        IF takes(w) THEN categorize(cbn[w], LiveLogs(b, w))
                        ELSE cbn[w]]
           /\ applied' = [w \in Workers |-> [x \in Blocks |->
                        IF takes(w) /\ x \in FreshLogs(cbn[w], LiveLogs(b, w))
                        THEN Min({2, applied[w][x] + 1}) ELSE applied[w][x]]]
           /\ live_history' = live_history
                 \cup { e \in {"stale_call"} : \E w \in live : takes(w) /\ b <= cbn[w] }
                 \cup { e \in {"skip_applied"} : \E w \in live : ~takes(w) /\ applied[w][b] >= 1 }
    /\ UNCHANGED << subscribed_earliest_block_number, current_workers,
                    old_categorizers, groups, SubVars, StartVars, EngineVars, disp_pc >>
    /\ UNCHANGED Other

\* ---------------------------------------------------------------- specification
\* The steps of Start, of the catch-up goroutines and of the live dispatcher.
StartStep ==
    \/ StartWait
    \/ \E S \in SUBSET Workers : \E st \in [S -> StartBlocks] :
          (\A w \in S : reg[w] = "none") /\ Route(S, st)
    \/ StartNewGroup
    \/ StartAddWorkers
    \/ StartCurRead
    \/ StartCurWrite

EngineStep ==
    \/ \E g \in GroupIds :
          \E to \in Blocks \cup {BlockNumberFrom(groups[g].block_number)} :
              to >= BlockNumberFrom(groups[g].block_number) /\ EngFetch(g, to)
    \/ \E g \in GroupIds : EngFetchFail(g)
    \/ \E g \in GroupIds : EngRetry(g)
    \/ \E g \in GroupIds : EngApply(g)
    \/ \E g \in GroupIds : EngPromoteRead(g)
    \/ \E g \in GroupIds : EngPromoteWrite(g)
    \/ \E g \in GroupIds : EngDeleteRead(g)
    \/ \E g \in GroupIds : EngDeleteWrite(g)

DispatcherStep ==
    \/ DispWake
    \/ DispBlock

\* The manager under a feed that may deliver any block at any time
\* (duplicates, out of order, other networks).
Next ==
    \/ \E b \in Blocks : Broadcast(b, TRUE)
    \/ Broadcast(0, FALSE)
    \/ StartStep
    \/ EngineStep
    \/ DispatcherStep

Spec == Init /\ [][Next]_vars

\* The subscriber goroutine on its own: it is the only writer of
\* subscribed_earliest_block_number and reads no other field; msg records the
\* broadcast each step received.
FeedStep(b, own) ==
    /\ subscribe(b, own, MaxFeed)
    /\ msg' = [block |-> b, own |-> own]
    /\ UNCHANGED << current_workers, old_categorizers, groups, cbn, StartVars,
                    EngineVars, disp_pc, History >>
    /\ UNCHANGED Other

\* The manager under the most benign feed: the blocks of this network arrive
\* once each, in order and without gaps.
OrderedBroadcast(b) ==
    /\ first_accepted # << >> => b = first_accepted[1] + deliveries
    /\ subscribe(b, TRUE, MaxFeed)
    /\ UNCHANGED << msg, current_workers, old_categorizers, groups, cbn, StartVars,
                    EngineVars, disp_pc, History >>
    /\ UNCHANGED Other

NextOrdered ==
    \/ \E b \in Blocks : OrderedBroadcast(b)
    \/ StartStep
    \/ EngineStep
    \/ DispatcherStep

SpecOrdered == Init /\ [][NextOrdered]_vars

NextFeed == \E b \in Blocks, own \in BOOLEAN : FeedStep(b, own)

SpecFeed == Init /\ [][NextFeed]_vars

\* The subscriber, Start and the live dispatcher under a feed that may deliver
\* any block at any time, while no catch-up goroutine has been scheduled yet.
NextLive ==
    \/ \E b \in Blocks, own \in BOOLEAN : FeedStep(b, own)
    \/ StartStep
    \/ DispatcherStep

SpecLive == Init /\ [][NextLive]_vars

\* The manager after a feed of at most MaxFairFeed blocks, with every goroutine
\* scheduled fairly and a historical source that fails now and then but
\* answers a fetch again and again. Requests arrive when the clients send them.
FairBroadcast(b) ==
    /\ subscribe(b, TRUE, MaxFairFeed)
    /\ UNCHANGED << msg, current_workers, old_categorizers, groups, cbn, StartVars,
                    EngineVars, disp_pc, History >>
    /\ UNCHANGED Other

NextFair ==
    \/ \E b \in Blocks : FairBroadcast(b)
    \/ StartStep
    \/ EngineStep
    \/ DispatcherStep

Fairness ==
    /\ WF_vars(StartWait) /\ WF_vars(StartNewGroup) /\ WF_vars(StartAddWorkers)
    /\ WF_vars(StartCurRead) /\ WF_vars(StartCurWrite)
    /\ WF_vars(DispatcherStep)
    /\ \A g \in GroupIds :
          /\ SF_vars(\E to \in Blocks \cup {BlockNumberFrom(groups[g].block_number)} :
                        to >= BlockNumberFrom(groups[g].block_number) /\ EngFetch(g, to))
          /\ WF_vars(EngRetry(g)) /\ WF_vars(EngApply(g))
          /\ WF_vars(EngPromoteRead(g)) /\ WF_vars(EngPromoteWrite(g))
          /\ WF_vars(EngDeleteRead(g)) /\ WF_vars(EngDeleteWrite(g))

SpecFair == Init /\ [][NextFair]_vars /\ Fairness

\* ---------------------------------------------------------------- wire messages
\* The values a Reply's fields are drawn from: ReplyStatus is a string type, so
\* a Reply can hold any status; a parameter is a Go string, a Go uint64 or a
\* Go float64 (all written "1"); Parameters is nil or a map with at most the
\* key "k".
Statuses == {"OK", "fail", "", "no"}
Messages == {"", "m"}
Topics == {"t", "u"}
GoValues == { [type |-> t, val |-> "1"] : t \in {"string", "uint64", "float64"} }
KeyValues ==
    { [nil |-> TRUE, kv |-> << >>] }
        \cup { [nil |-> FALSE, kv |-> s] : s \in { << >> } \cup { << v >> : v \in GoValues } }
Replies == [Status : Statuses, Message : Messages, Parameters : KeyValues]

\* Reply{}
EmptyReply == [Status |-> "", Message |-> "", Parameters |-> [nil |-> TRUE, kv |-> << >>]]
NilBytes == [err |-> TRUE, bytes |-> << >>]
NoParsed == [err |-> FALSE, reply |-> EmptyReply, topic |-> ""]

\* The Go type encoding/json gives a JSON number decoded into interface{}:
\* json.Number when the decoder uses UseNumber, float64 otherwise.
NumberType == IF wire.use_number THEN "json.Number" ELSE "float64"

\* encoding/json: a Go string is written as a JSON string, every Go number as
\* a JSON number; a nil map is written as null.
JsonValue(v) == [json |-> IF v.type = "string" THEN "string" ELSE "number", text |-> v.val]
GoValue(j) == [type |-> IF j.json = "string" THEN "string" ELSE NumberType, val |-> j.text]
MarshalKeyValue(p) ==
    [null |-> p.nil, members |-> [i \in 1..Len(p.kv) |-> JsonValue(p.kv[i])]]
UnmarshalKeyValue(j) ==
    [nil |-> j.null, kv |-> [i \in 1..Len(j.members) |-> GoValue(j.members[i])]]

\* mutant: a failure without a message is let through.
valid_fail_skipped(reply) == TRUE

\* Reply.valid_status, Reply.valid_fail: TRUE when the returned error is nil.
valid_status(reply) == ~(reply.Status # "fail" /\ reply.Status # "OK")
valid_fail(reply) == ~(reply.Status = "fail" /\ reply.Message = "")

\* key_value.NewFromInterface(reply): the Reply as a key-value of JSON values;
\* an error for a missing (nil) value unless the package tolerates it.
NewFromInterface(reply) ==
    [err |-> reply.Parameters.nil /\ ~wire.nil_ok,
     kv |-> [status |-> reply.Status, message |-> reply.Message,
             parameters |-> MarshalKeyValue(reply.Parameters)]]

\* Reply.ToBytes
ReplyToBytes(reply) ==
    IF ~valid_fail(reply) THEN NilBytes
    ELSE IF ~valid_status(reply) THEN NilBytes
    ELSE IF NewFromInterface(reply).err THEN NilBytes
    ELSE [err |-> FALSE, bytes |-> << NewFromInterface(reply).kv >>]

\* key_value.NewFromString(msg): an error when msg is no JSON object.
NewFromString(bytes) == [err |-> bytes = << >>, kv |-> bytes]

\* KeyValue.ToInterface(&reply): the fields of the Reply struct by their json tags.
ToInterface(dat) ==
    [Status |-> dat.status, Message |-> dat.message,
     Parameters |-> UnmarshalKeyValue(dat.parameters)]

\* ParseJsonReply
ParseJsonReply(dat) ==
    LET reply == ToInterface(dat)
    IN  IF ReplyToBytes(reply).err
        THEN [err |-> TRUE, reply |-> EmptyReply, topic |-> ""]
        ELSE [err |-> FALSE, reply |-> reply, topic |-> ""]

\* ParseReply
ParseReply(bytes) ==
    LET data == NewFromString(bytes)
    IN  IF data.err THEN [err |-> TRUE, reply |-> EmptyReply, topic |-> ""]
        ELSE ParseJsonReply(data.kv[1])

\* Broadcast.ToBytes: no validation of the reply; empty bytes on error.
BroadcastToBytes(b) ==
    IF NewFromInterface(b.Reply).err THEN << >>
    ELSE << [topic |-> b.Topic, reply |-> NewFromInterface(b.Reply).kv] >>

\* mutant: the topic is not read from the message.
BroadcastTopicDropped(dat) == ""

\* ParseBroadcast, line 77: dat.GetString("topic")
BroadcastTopic(dat) == dat.topic

\* ParseBroadcast: bytes without a "{" are rejected; Broadcast{} on any error.
ParseBroadcast(bytes) ==
    IF bytes = << >> THEN [err |-> TRUE, reply |-> EmptyReply, topic |-> ""]
    ELSE LET dat == NewFromString(bytes).kv[1]
             parsed == ParseJsonReply(dat.reply)
         IN  IF parsed.err THEN [err |-> TRUE, reply |-> EmptyReply, topic |-> ""]
             ELSE [err |-> FALSE, reply |-> parsed.reply, topic |-> BroadcastTopic(dat)]

\* The Reply as the key-value a sender that validates nothing puts on the wire.
KeyValueOf(reply) ==
    [status |-> reply.Status, message |-> reply.Message,
     parameters |-> MarshalKeyValue(reply.Parameters)]

ManagerVars == << subscribed_earliest_block_number, subscribed_blocks, current_workers,
                  old_categorizers, groups, cbn, reg, start_block, requests, deliveries,
                  first_accepted, msg,
                  start_pc, start_old, start_cur, start_group, start_rd,
                  eng_pc, eng_fetch, eng_rd, disp_pc,
                  applied, promotions, live_history, req_of >>

\* Any Reply and topic, with either decoder setting and either treatment of
\* a nil Parameters map by the key_value package.
InitWire ==
    /\ wire \in [pc : {"new"}, reply : Replies, topic : Topics,
                  use_number : BOOLEAN, nil_ok : BOOLEAN,
                  out : {NilBytes}, parsed : {NoParsed}]
    /\ svc = NoService
    /\ ManagerInit

WireReplyToBytes ==
    /\ wire.pc = "new"
    /\ wire' = [wire EXCEPT !.pc = "encoded", !.out = ReplyToBytes(wire.reply)]
    /\ UNCHANGED << ManagerVars, svc >>

WireParseReply ==
    /\ wire.pc = "encoded"
    /\ wire' = [wire EXCEPT !.pc = "parsed", !.parsed = ParseReply(wire.out.bytes)]
    /\ UNCHANGED << ManagerVars, svc >>

WireParseJsonReply ==
    /\ wire.pc = "new"
    /\ wire' = [wire EXCEPT !.pc = "json_parsed",
                            !.parsed = ParseJsonReply(KeyValueOf(wire.reply))]
    /\ UNCHANGED << ManagerVars, svc >>

WireBroadcastToBytes ==
    /\ wire.pc = "new"
    /\ wire' = [wire EXCEPT !.pc = "bencoded",
                            !.out = [err |-> FALSE,
                                     bytes |-> BroadcastToBytes([Topic |-> wire.topic,
                                                                 Reply |-> wire.reply])]]
    /\ UNCHANGED << ManagerVars, svc >>

WireParseBroadcast ==
    /\ wire.pc = "bencoded"
    /\ wire' = [wire EXCEPT !.pc = "bparsed", !.parsed = ParseBroadcast(wire.out.bytes)]
    /\ UNCHANGED << ManagerVars, svc >>

NextWire ==
    \/ WireReplyToBytes
    \/ WireParseReply
    \/ WireParseJsonReply
    \/ WireBroadcastToBytes
    \/ WireParseBroadcast

SpecWire == InitWire /\ [][NextWire]_vars

\* ---------------------------------------------------------------- Service
Categories == {"h1", "h2"}
ExtIds == {"a", "b"}
Urls == {"u0", "u1"}

\* key_value.KeyValue as RequiredExtensions holds it: nil, or a map id -> url.
NilKeyValue == [nil |-> TRUE, kv |-> << >>]
ExtensionMaps ==
    { NilKeyValue, [nil |-> FALSE, kv |-> << >>] }
        \cup { [nil |-> FALSE, kv |-> [x \in {"a"} |-> u]] : u \in Urls }

\* KeyValue.Exist, KeyValue.Set
Exist(m, id) == ~m.nil /\ id \in DOMAIN m.kv
Set(m, id, url) ==
    [nil |-> FALSE, kv |-> [x \in DOMAIN m.kv \cup {id} |-> IF x = id THEN url ELSE m.kv[x]]]

\* RequireExtension, line 228: the test that guards the Set.
ShouldSetExtension(m, id) == Exist(m, id)

\* The steps of Service.Start that can fail, in the order of the code.
StartSteps == << "setConfig", "StartDepManager", "StartProxyHandler", "newManager",
                "setProxyUnits", "handlers", "manager.Start", "StartLastProxies" >>
StepIndex(name) == CHOOSE i \in 1..Len(StartSteps) : StartSteps[i] = name

\* The Service New returns: no handlers, no manager, no blocker. New does not
\* set RequiredExtensions (nil); the field is exported, so a caller may have
\* assigned a map to it. running_on_nil is what Manager.Running does when
\* called on a nil *Manager: "false" or "panic".
NewService(ext, running_on_nil) ==
    [pc |-> "new", Handlers |-> {}, RequiredExtensions |-> ext, call |-> << >>,
     running_on_nil |-> running_on_nil,
     config |-> FALSE, dep_manager |-> FALSE, proxy_handler |-> FALSE,
     manager |-> "nil", started |-> << >>, closed |-> {}, ctx_closed |-> FALSE,
     blocker |-> "nil", ret |-> "none"]

InitService ==
    /\ svc \in { NewService(ext, r) : ext \in ExtensionMaps, r \in {"false", "panic"} }
    /\ wire = NoWire
    /\ ManagerInit

\* SetHandler
SetHandler(category) ==
    /\ svc.pc = "new"
    /\ svc' = [svc EXCEPT !.Handlers = @ \cup {category}]
    /\ UNCHANGED << ManagerVars, wire >>

\* RequireExtension; call records the arguments of the last call.
RequireExtension(id, url) ==
    /\ svc.pc = "new"
    /\ svc' = [svc EXCEPT !.RequiredExtensions =
                   IF ShouldSetExtension(@, id) THEN Set(@, id, url) ELSE @,
                          !.call = << id, url >>]
    /\ UNCHANGED << ManagerVars, wire >>

\* Service.Start, one call. order is the order in which the range over
\* Handlers visits the categories; fail is the step that returns an error
\* (0: none), k the handler whose setHandlerClient or startHandler fails.
\* With no handlers the first test fails before any step.
ServiceStart(order, fail, k) ==
    LET none == svc.Handlers = {}
        done(name) == ~none /\ (fail = 0 \/ StepIndex(name) < fail)
        err == none \/ fail # 0
        started == IF done("handlers") THEN order
                   ELSE IF ~none /\ fail = StepIndex("handlers") THEN SubSeq(order, 1, k - 1)
                   ELSE << >>
        manager == IF ~done("newManager") THEN "nil"
                   ELSE IF done("manager.Start") THEN "running" ELSE "created"
        panics == err /\ manager = "nil" /\ svc.running_on_nil = "panic"
    IN  /\ svc.pc = "new"
        /\ Range(order) = svc.Handlers
        /\ svc' = [svc EXCEPT
                     !.pc = "returned",
                     !.config = done("setConfig"),
                     !.dep_manager = done("StartDepManager"),
                     !.proxy_handler = done("StartProxyHandler"),
                     !.started = started,
                     !.ctx_closed = err,
                     !.closed = IF err THEN Range(started) ELSE {},
                     !.manager = IF err /\ manager = "running" THEN "closed" ELSE manager,
                     !.blocker = IF err THEN svc.blocker ELSE "1",
                     !.ret = IF panics THEN "panic" ELSE IF err THEN "error" ELSE "ok"]
        /\ UNCHANGED << ManagerVars, wire >>

NextService ==
    \/ \E c \in Categories : SetHandler(c)
    \/ \E id \in ExtIds, url \in Urls : RequireExtension(id, url)
    \/ \E order \in [1..Cardinality(svc.Handlers) -> svc.Handlers] :
          \E fail \in 0..Len(StartSteps) : \E k \in 1..Max({1, Len(order)}) :
              ServiceStart(order, fail, k)

SpecService == InitService /\ [][NextService]_vars

\* ---------------------------------------------------------------- claims
Baseline == subscribed_earliest_block_number
ListedGroupsOf(w) ==
    { i \in 1..Len(old_categorizers) : w \in Range(groups[old_categorizers[i]].workers) }
GroupsOf(w) == { g \in GroupIds : w \in Range(groups[g].workers) }
InCurrent(w) == w \in Range(current_workers)
AppliedBlocks(w) == { b \in Blocks : applied[w][b] >= 1 }

\* C1: no log is lost. For every registered worker and every block of the live
\* feed (at or above the baseline) above the watermark the worker was
\* registered with, once the worker's watermark has reached that block, the
\* worker's log in that block has been applied to it. (Blocks at or below the
\* registration watermark count as categorized before registration.)
C1_NoLogLost ==
    \A w \in Workers : reg[w] # "none" =>
        \A b \in Blocks :
            (Baseline # 0 /\ b >= Baseline /\ b > start_block[w] /\ cbn[w] >= b
                /\ w \in chain[b]) => applied[w][b] >= 1

\* C2: every worker whose registration has completed is a member of exactly
\* one of: one listed group, or current_workers; never both, never neither.
C2_ExactlyOnePlace ==
    \A w \in Workers : reg[w] = "done" =>
        \/ (Cardinality(ListedGroupsOf(w)) = 1 /\ ~InCurrent(w))
        \/ (ListedGroupsOf(w) = {} /\ InCurrent(w))

\* C9: the baseline is the block number of the first accepted broadcast, from
\* that broadcast on.
C9_BaselineIsFirstAccepted ==
    first_accepted # << >> => subscribed_earliest_block_number = first_accepted[1]

\* C10 (as claimed): once the baseline is set to B, a broadcast carrying B
\* again is not pushed, and one carrying B+1 is pushed.
C10_DuplicateDiscarded ==
    [][(msg'.own /\ Baseline # 0) =>
          /\ (msg'.block = Baseline => subscribed_blocks' = subscribed_blocks)
          /\ (msg'.block = Baseline + 1 =>
                 subscribed_blocks' = Append(subscribed_blocks, msg'.block))]_vars

\* C10 (amended): once the baseline is set to B, a broadcast of this network
\* carrying a block number below B is not pushed, and one carrying B or more,
\* B itself included, is pushed.
C10_OnlyBelowDiscarded ==
    [][(msg'.own /\ Baseline # 0) =>
          /\ (msg'.block < Baseline => subscribed_blocks' = subscribed_blocks)
          /\ (msg'.block >= Baseline =>
                 subscribed_blocks' = Append(subscribed_blocks, msg'.block))]_vars

\* C10 witness: the baseline block was broadcast twice and is queued twice,
\* and a block below the baseline has been dropped.
C10_Witness ==
    /\ Baseline # 0
    /\ Len(subscribed_blocks) = 2
    /\ subscribed_blocks[1] = Baseline
    /\ subscribed_blocks[2] = Baseline
    /\ msg.own /\ msg.block < Baseline

\* C3: no step lowers a worker's watermark, and once logs have been applied
\* to a worker its watermark is the highest block number applied to it.
C3_WatermarkMonotone ==
    [][\A w \in Workers :
          /\ cbn'[w] >= cbn[w]
          /\ (AppliedBlocks(w)' # {} => cbn'[w] = Max(AppliedBlocks(w)'))]_vars

\* C3 witness: a worker, alone in its group, had logs applied by catch-up up
\* to the group's final cursor and then, promoted, by the live dispatcher
\* above it.
C3_Witness ==
    \E w \in Workers, g \in GroupIds :
        /\ groups[g].workers = << w >> /\ eng_pc[g] = "done" /\ InCurrent(w)
        /\ \E b \in AppliedBlocks(w) : b <= groups[g].block_number
        /\ \E b \in AppliedBlocks(w) : b > groups[g].block_number
        /\ cbn[w] = Max(AppliedBlocks(w))

\* C4: no worker has the logs of one block applied twice, and the live
\* dispatcher never hands a worker a block at or below its watermark.
C4_NoDoubleApplication ==
    /\ \A w \in Workers : \A b \in Blocks : applied[w][b] <= 1
    /\ "stale_call" \notin live_history

\* C4 witness: the dispatcher popped a block that had already been applied to
\* a live worker and skipped it, and that block is still applied exactly once.
C4_Witness ==
    /\ "skip_applied" \in live_history
    /\ \E w \in Workers : InCurrent(w) /\ AppliedBlocks(w) # {}

\* C5 (as claimed): when a group is promoted its cursor does not exceed the baseline.
C5_CursorAtMostBaseline ==
    \A g \in GroupIds : eng_pc[g] \in {"promote_r", "promote_w"} =>
        groups[g].block_number <= Baseline

\* C5 (amended): when a group is promoted its cursor is at least the baseline
\* (the baseline is set, and the cursor may exceed it).
C5_CursorAtLeastBaseline ==
    \A g \in GroupIds : eng_pc[g] \in {"promote_r", "promote_w"} =>
        Baseline # 0 /\ groups[g].block_number >= Baseline

\* C5 witness: a group with members is being promoted with its cursor past the baseline.
C5_Witness ==
    \E g \in GroupIds :
        /\ eng_pc[g] = "promote_w"
        /\ groups[g].workers # << >>
        /\ groups[g].block_number > Baseline

\* C6: every group is promoted at most once; once promoted its goroutine only
\* removes the group and terminates, the removal leaves old_categorizers
\* without the group, and no worker appears twice in current_workers.
C6_PromotedOnce ==
    [][/\ \A g \in GroupIds :
             /\ promotions'[g] <= 1
             /\ (promotions'[g] = 1 => eng_pc'[g] \in {"delete_r", "delete_w", "done"})
             /\ (eng_pc[g] = "delete_w" /\ eng_pc'[g] = "done" =>
                    g \notin Range(old_categorizers'))
       /\ NoDup(current_workers')]_vars

\* C6 witness: a group with members was promoted, removed, and its goroutine ended.
C6_Witness ==
    \E g \in GroupIds :
        /\ eng_pc[g] = "done"
        /\ promotions[g] = 1
        /\ groups[g].workers # << >>
        /\ Range(groups[g].workers) \subseteq Range(current_workers)
        /\ g \notin Range(old_categorizers)

\* The workers a request routed to catch-up, once its group step has run.
Placed(w) == reg[w] = "done" /\ start_block[w] < Baseline

\* C7 (as claimed): two catch-up workers with the same start block, the first
\* arriving while no group exists, in the same or in the next request, are
\* members of the same group, and no two listed groups were created for the
\* same start block.
C7_SameStartSameGroup ==
    \A w1, w2 \in Workers :
        (Placed(w1) /\ Placed(w2) /\ req_of[w1] = 1 /\ req_of[w2] \in {1, 2}
            /\ start_block[w1] = start_block[w2])
        => GroupsOf(w1) = GroupsOf(w2)

\* C7 (amended): two catch-up workers of one request are members of the same
\* group; a worker of a later request joins a listed group only if that
\* group's cursor is at or below the request's earliest start block, and gets
\* a new group only if no listed group has such a cursor.
C7_SameRequestSameGroup ==
    [][/\ \A w1, w2 \in Workers :
             (Placed(w1)' /\ Placed(w2)' /\ req_of'[w1] = req_of'[w2])
             => (GroupsOf(w1)' = GroupsOf(w2)' /\ Cardinality(GroupsOf(w1)') = 1)
       /\ (start_pc = "recv" /\ start_pc' = "add_workers") =>
             /\ start_group' \in Range(old_categorizers)
             /\ groups[start_group'].block_number <= EarliestBlockNumber(start_old', cbn')
       /\ (start_pc = "recv" /\ start_pc' = "new_group") =>
             \A i \in 1..Len(old_categorizers) :
                 groups[old_categorizers[i]].block_number
                     > EarliestBlockNumber(start_old', cbn')]_vars

\* C7 witness: two workers with the same start block, registered in
\* consecutive requests, sit in two different groups that are both listed.
C7_Witness ==
    \E w1, w2 \in Workers :
        /\ Placed(w1) /\ Placed(w2)
        /\ req_of[w1] = 1 /\ req_of[w2] = 2
        /\ start_block[w1] = start_block[w2]
        /\ GroupsOf(w1) = {1} /\ GroupsOf(w2) = {2}
        /\ {1, 2} \subseteq Range(old_categorizers)

\* C8: the registration step appends exactly the request's workers whose
\* start block is at or above the baseline to current_workers, and those are
\* never members of a group; the workers below the baseline are members of a
\* group and are not appended by the registration step.
C8_RoutedByBaseline ==
    [][/\ (start_pc = "cur_w" /\ start_pc' = "recv") =>
             \A w \in Workers : reg[w] = "pending" =>
                 /\ start_block[w] >= Baseline =>
                       (w \in Range(current_workers') /\ w \in Range(start_cur))
                 /\ start_block[w] < Baseline =>
                       (w \notin Range(start_cur) /\ GroupsOf(w) # {}
                          /\ (w \in Range(current_workers') => w \in Range(start_rd)))
       /\ \A w \in Workers :
             (reg'[w] # "none" /\ start_block'[w] >= Baseline') => GroupsOf(w)' = {}]_vars

\* C8 witness: one registered worker at or above the baseline is live and in
\* no group, another below the baseline is in a group and not live.
C8_Witness ==
    \E w1, w2 \in Workers :
        /\ reg[w1] = "done" /\ reg[w2] = "done"
        /\ start_block[w1] >= Baseline /\ InCurrent(w1) /\ GroupsOf(w1) = {}
        /\ start_block[w2] < Baseline /\ ~InCurrent(w2) /\ GroupsOf(w2) # {}

\* C11: every block the live dispatcher applies to a worker is above every
\* block applied to that worker before, and subscribed_blocks only ever grows
\* at its end and shrinks at its head.
C11_LiveOrderIncreasing ==
    [][/\ \A w \in Workers : \A x \in Blocks :
             (disp_pc = "drain" /\ applied'[w][x] > applied[w][x])
             => \A y \in AppliedBlocks(w) : y < x
       /\ \/ subscribed_blocks' = subscribed_blocks
          \/ \E b \in Blocks : subscribed_blocks' = Append(subscribed_blocks, b)
          \/ subscribed_blocks # << >> /\ subscribed_blocks' = Tail(subscribed_blocks)]_vars

\* C11 witness: the feed delivered a block after a higher one; the dispatcher
\* applied the higher one to a live worker and then dropped the lower one,
\* which carries a log of that worker, without applying it.
C11_Witness ==
    \E w \in Workers : \E lo, hi \in Blocks :
        /\ InCurrent(w) /\ subscribed_blocks = << >> /\ deliveries = MaxFeed
        /\ msg.own /\ msg.block = lo /\ Baseline # 0 /\ lo >= Baseline /\ lo < hi
        /\ w \in chain[lo] /\ start_block[w] < lo
        /\ applied[w][hi] = 1 /\ applied[w][lo] = 0 /\ cbn[w] = hi

\* C12: when the live dispatcher processes one block, the only workers whose
\* watermark or applied logs change are live workers with a log in that
\* block, and their watermark becomes that block.
C12_OnlyMatchingWorkersChange ==
    [][(disp_pc = "drain" /\ subscribed_blocks # << >>
          /\ subscribed_blocks' = Tail(subscribed_blocks)) =>
          \A w \in Workers :
              (cbn'[w] # cbn[w] \/ applied'[w] # applied[w]) =>
                  /\ InCurrent(w)
                  /\ w \in chain[Head(subscribed_blocks)]
                  /\ cbn'[w] = Head(subscribed_blocks)]_vars

\* C12 witness: two workers went live in the same request; the dispatcher
\* applied a block to the one with a log in it, and the other, offered the
\* same block (it is above its watermark), is unchanged.
C12_Witness ==
    \E w1, w2 \in Workers : \E b \in Blocks :
        /\ w1 # w2 /\ req_of[w1] = req_of[w2]
        /\ reg[w1] = "done" /\ reg[w2] = "done"
        /\ start_block[w1] >= Baseline /\ start_block[w2] >= Baseline /\ Baseline # 0
        /\ InCurrent(w1) /\ InCurrent(w2)
        /\ applied[w1][b] = 1 /\ cbn[w1] = b
        /\ w2 \notin chain[b] /\ start_block[w2] < b
        /\ cbn[w2] = start_block[w2] /\ AppliedBlocks(w2) = {}

\* C13: a failed fetch round leaves the group's cursor, its members, every
\* watermark, current_workers and old_categorizers unchanged, does not
\* promote the group, and the goroutine goes back to fetch with that cursor.
C13_FailedRoundChangesNothing ==
    [][\A g \in GroupIds :
          (eng_pc'[g] # eng_pc[g]
             /\ (eng_pc[g] = "retry" \/ (eng_pc[g] = "fetch" /\ eng_pc'[g] = "retry")))
          => /\ groups' = groups /\ cbn' = cbn /\ applied' = applied
             /\ current_workers' = current_workers
             /\ old_categorizers' = old_categorizers
             /\ promotions' = promotions
             /\ eng_pc'[g] \in {"retry", "fetch"}
             /\ (eng_pc'[g] = "fetch" => eng_fetch'[g] = NoFetch)]_vars

\* C13 witness: a group whose earlier round applied logs to a member and
\* moved the cursor has a failed round behind it and is back at fetch with
\* the cursor that round started from.
C13_Witness ==
    \E g \in GroupIds : \E w \in Workers :
        /\ eng_pc[g] = "retry"
        /\ w \in Range(groups[g].workers) /\ AppliedBlocks(w) # {}
        /\ groups[g].block_number > 0
        /\ eng_fetch[g].from = BlockNumberFrom(groups[g].block_number)
        /\ promotions[g] = 0 /\ g \in Range(old_categorizers)

\* C14 (engine part): with the baseline set, a historical source that
\* eventually answers and fair scheduling, the goroutine of every group
\* created by registration eventually terminates, the group having been
\* promoted and removed from old_categorizers.
C14_EngineTerminates ==
    \A g \in GroupIds :
        (eng_pc[g] = "fetch") ~>
            (eng_pc[g] = "done" /\ promotions[g] = 1 /\ g \notin Range(old_categorizers))

\* C14: under the same assumptions every worker that registration places in
\* a group eventually appears in current_workers.
C14_EveryGroupPromoted ==
    \A w \in Workers : (reg[w] = "pending" /\ GroupsOf(w) # {}) ~> InCurrent(w)

\* C15: a failed fetch round changes nothing the subscriber, Start or the
\* dispatcher read or write, and while a group sits in a failed round every
\* accepted broadcast can still be pushed, the dispatcher can still wake up
\* for a live worker and pop a queued block, and Start can still take its
\* next step.
C15_FailingCatchUpIsolated ==
    [][/\ (\E g \in GroupIds : eng_pc'[g] # eng_pc[g]
                /\ (eng_pc[g] = "retry" \/ eng_pc'[g] = "retry"))
          => UNCHANGED << ManagerState, cbn, SubVars, StartVars, disp_pc, History >>
       /\ (\E g \in GroupIds : eng_pc[g] = "retry") =>
             /\ (disp_pc = "idle" /\ Len(current_workers) # 0 /\ subscribed_blocks # << >>)
                    => ENABLED DispWake
             /\ (disp_pc = "drain" /\ subscribed_blocks # << >>) => ENABLED DispBlock
             /\ \A b \in Blocks :
                    (deliveries < MaxDeliveries /\ ~DiscardBroadcast(b, Baseline))
                    => ENABLED Broadcast(b, TRUE)
             /\ (start_pc = "recv" /\ requests < MaxRequests
                    /\ \E w \in Workers : reg[w] = "none") => ENABLED StartStep
             /\ (start_pc \notin {"wait", "recv"}) => ENABLED StartStep]_vars

\* C15 witness: a group sits in a failed round, never promoted, while a
\* worker that went live directly has had a queued block applied by the
\* dispatcher and the queue has been drained.
C15_Witness ==
    \E g \in GroupIds : \E w \in Workers :
        /\ eng_pc[g] = "retry" /\ promotions[g] = 0 /\ groups[g].workers # << >>
        /\ \A v \in Range(groups[g].workers) : AppliedBlocks(v) = {}
        /\ InCurrent(w) /\ start_block[w] >= Baseline /\ Baseline # 0
        /\ AppliedBlocks(w) # {}
        /\ deliveries = MaxDeliveries /\ subscribed_blocks = << >>

\* The Reply is valid: status OK, or status fail with a message.
ValidReply(r) == r.Status = "OK" \/ (r.Status = "fail" /\ r.Message # "")

SameAsJson(p, q) ==
    /\ p.nil = q.nil
    /\ Len(p.kv) = Len(q.kv)
    /\ \A i \in 1..Len(q.kv) :
          /\ p.kv[i].val = q.kv[i].val
          /\ p.kv[i].type = IF q.kv[i].type = "string" THEN "string" ELSE NumberType

C17_OnlyValidAccepted ==
    /\ wire.pc = "encoded" =>
          /\ ~wire.out.err => ValidReply(wire.reply)
          /\ wire.out.err => wire.out.bytes = << >>
    /\ wire.pc \in {"parsed", "json_parsed", "bparsed"} =>
          /\ ~wire.parsed.err => (ValidReply(wire.parsed.reply) /\ ValidReply(wire.reply))
          /\ wire.parsed.err => (wire.parsed.reply = EmptyReply /\ wire.parsed.topic = "")

\* C17 witness: a key-value with status fail, no message and non-nil
\* parameters was handed to ParseJsonReply and rejected with the empty Reply.
C17_Witness ==
    /\ wire.pc = "json_parsed" /\ wire.parsed.err
    /\ wire.reply.Status = "fail" /\ wire.reply.Message = ""
    /\ ~wire.reply.Parameters.nil
    /\ wire.parsed.reply = EmptyReply

\* C18: Start on a Service with no handlers returns an error and a nil
\* WaitGroup, has started neither the dependency manager, the proxy handler,
\* the service manager nor a handler, and its cleanup path does not fail.
C18_NoHandlersStartFails ==
    (svc.pc = "returned" /\ svc.Handlers = {}) =>
        /\ svc.ret = "error"
        /\ svc.blocker = "nil"
        /\ ~svc.dep_manager /\ ~svc.proxy_handler
        /\ svc.manager = "nil" /\ svc.started = << >>

\* C19: after RequireExtension(id, url), RequiredExtensions maps id to url,
\* whether or not the id was required before.
C19_RequireExtensionLinks ==
    (svc.pc # "none" /\ svc.call # << >>) =>
        /\ Exist(svc.RequiredExtensions, svc.call[1])
        /\ svc.RequiredExtensions.kv[svc.call[1]] = svc.call[2]

\* C20: no catch-up worker is placed in a group whose cursor is greater than
\* the worker's start block: not when Start adds the request's workers to
\* the group FirstGroupGreaterThan returned, and not when it creates a group.
C20_CursorNeverAboveStart ==
    [][/\ (start_pc = "add_workers" /\ start_pc' = "cur_r") =>
             \A w \in Range(start_old) :
                 groups[start_group].block_number <= start_block[w]
       /\ (start_pc = "new_group" /\ start_pc' = "cur_r") =>
             \A w \in Range(start_old) :
                 groups'[requests].block_number <= start_block[w]]_vars

\* C20 (first part): the group a catch-up worker is placed in is the listed
\* group with the largest cursor <= the worker's own start block, and a new
\* group is created only if there is none, with the worker's start block as
\* its cursor.
C20_LargestCursorPerWorker ==
    [][/\ (start_pc = "recv" /\ start_pc' = "add_workers") =>
             \A w \in Range(start_old') :
                 /\ groups[start_group'].block_number <= start_block'[w]
                 /\ \A i \in 1..Len(old_categorizers) :
                        groups[old_categorizers[i]].block_number <= start_block'[w]
                        => groups[old_categorizers[i]].block_number
                              <= groups[start_group'].block_number
       /\ (start_pc = "new_group" /\ start_pc' = "cur_r") =>
             \A w \in Range(start_old) :
                 /\ groups'[requests].block_number = start_block[w]
                 /\ \A i \in 1..Len(old_categorizers) :
                        groups[old_categorizers[i]].block_number > start_block[w]]_vars

\* C21: every block in subscribed_blocks has a block number at or above the
\* baseline (its network id is the manager's by construction, line 377), and a
\* broadcast of another network or below the baseline leaves the queue and
\* the baseline unchanged.
C21_QueuedAtOrAboveBaseline ==
    [][/\ \A i \in 1..Len(subscribed_blocks') :
             subscribed_blocks'[i] >= subscribed_earliest_block_number'
       /\ (~msg'.own \/ (Baseline # 0 /\ msg'.block < Baseline)) =>
             UNCHANGED << subscribed_blocks, subscribed_earliest_block_number >>]_vars

\* C21 (frame part): a broadcast of another network, or one below a set
\* baseline, leaves the queue and the baseline unchanged.
C21_DiscardChangesNothing ==
    [][(~msg'.own \/ (Baseline # 0 /\ msg'.block < Baseline)) =>
          UNCHANGED << subscribed_blocks, subscribed_earliest_block_number >>]_vars

\* The members of group g that have a log in the result the goroutine fetched.
MembersWithLogs(g) ==
    { w \in Range(groups[g].workers) :
        FilterByAddress(RemoteLogFilter(eng_fetch[g].from, eng_fetch[g].to,
                                        eng_fetch[g].addrs), w) # {} }

\* C22: after a catch-up round in which logs were applied, the group's cursor
\* is the maximum watermark reached across the members that had logs applied
\* in that round.
C22_CursorIsMaxWatermark ==
    [][\A g \in GroupIds :
          (eng_pc[g] = "apply" /\ eng_pc'[g] # "apply" /\ MembersWithLogs(g) # {}) =>
              groups'[g].block_number = Max({ cbn'[w] : w \in MembersWithLogs(g) })]_vars

\* C23 (as claimed): after a successful catch-up round in which no member had
\* a log in the fetched result, the group's cursor is unchanged.
C23_EmptyRoundCursorStays ==
    [][\A g \in GroupIds :
          (eng_pc[g] = "apply" /\ eng_pc'[g] # "apply" /\ MembersWithLogs(g) = {}) =>
              groups'[g].block_number = groups[g].block_number]_vars

\* C23 (amended): after a successful catch-up round in which no member had a
\* log in the fetched result, the group's cursor is the round's
\* block_number_from, one above the cursor the round started with; the
\* members' watermarks are unchanged.
C23_EmptyRoundCursorAdvancesByOne ==
    [][\A g \in GroupIds :
          (eng_pc[g] = "apply" /\ eng_pc'[g] # "apply" /\ MembersWithLogs(g) = {}) =>
              /\ groups'[g].block_number = groups[g].block_number + 1
              /\ groups'[g].block_number = eng_fetch[g].from
              /\ cbn' = cbn]_vars

\* C23 witness: a group created for one worker has finished a round that
\* applied nothing: the worker has no log applied, its watermark is the one it
\* was registered with, and the cursor is one above it.
C23_Witness ==
    \E g \in GroupIds, w \in Workers :
        /\ groups[g].workers = << w >>
        /\ req_of[w] = g
        /\ AppliedBlocks(w) = {}
        /\ cbn[w] = start_block[w]
        /\ groups[g].block_number = start_block[w] + 1
        /\ eng_pc[g] \in {"fetch", "promote_r"}

\* C24 (as claimed): each fetch of a group's goroutine asks for exactly the
\* addresses of the group's members, from the block the cursor points at.
C24_FetchMembersFromCursor ==
    [][\A g \in GroupIds :
          (eng_pc[g] = "fetch" /\ eng_pc'[g] = "apply") =>
              /\ eng_fetch'[g].addrs = Range(groups[g].workers)
              /\ eng_fetch'[g].from = groups[g].block_number]_vars

\* C24 (amended): each fetch of a group's goroutine asks for the addresses of
\* the members of every listed group and of every live worker, from the block
\* after the one the cursor points at.
C24_FetchAllFromAfterCursor ==
    [][\A g \in GroupIds :
          (eng_pc[g] = "fetch" /\ eng_pc'[g] = "apply") =>
              /\ eng_fetch'[g].addrs =
                    { w \in Workers :
                        \/ w \in Range(current_workers)
                        \/ \E i \in 1..Len(old_categorizers) :
                              w \in Range(groups[old_categorizers[i]].workers) }
              /\ eng_fetch'[g].from = groups[g].block_number + 1]_vars

\* C24 witness: a listed group with one member has fetched from the block
\* after its cursor, for its member's address and for that of a live worker.
C24_Witness ==
    \E g \in GroupIds, w, v \in Workers :
        /\ eng_pc[g] = "apply"
        /\ g \in Range(old_categorizers)
        /\ groups[g].workers = << w >>
        /\ v # w /\ InCurrent(v)
        /\ eng_fetch[g].addrs = {w, v}
        /\ eng_fetch[g].from = groups[g].block_number + 1

\* C25: whenever the live dispatcher is at its call of Pop (line 241), the
\* queue subscribed_blocks is non-empty.
C25_PopOnlyWhenNonEmpty ==
    disp_pc = "drain" => subscribed_blocks # << >>

\* categorize_current_smartcontracts, lines 243-264: the (worker, logs)
\* messages the dispatcher sends on the pusher while it handles block b: one
\* for every live worker the skip of line 244 lets through.
DispPublished(b) ==
    { << w, LiveLogs(b, w) >> :
        w \in { v \in Range(current_workers) : ~SkipBlock(b, cbn[v]) } }

\* C26: the live dispatcher sends a message for a (worker, block) pair only
\* when the block holds at least one log of the worker's address.
C26_LivePublishOnlyWithLogs ==
    [][(disp_pc = "drain" /\ subscribed_blocks # << >>
           /\ subscribed_blocks' = Tail(subscribed_blocks)) =>
          \A m \in DispPublished(Head(subscribed_blocks)) : m[2] # {}]_vars

\* C27: a group's member list only grows; the promotion step of the group's
\* goroutine puts every worker that is a member at that moment into
\* current_workers, and no worker is added to the group after that step, so
\* that no worker is left behind in a removed group.
C27_PromotedAsAWhole ==
    [][\A g \in GroupIds :
          /\ Len(groups[g].workers) <= Len(groups'[g].workers)
          /\ SubSeq(groups'[g].workers, 1, Len(groups[g].workers)) = groups[g].workers
          /\ (eng_pc[g] = "promote_w" /\ eng_pc'[g] # "promote_w") =>
                 Range(groups[g].workers) \subseteq Range(current_workers')
          /\ eng_pc[g] \in {"delete_r", "delete_w", "done"} =>
                 groups'[g].workers = groups[g].workers]_vars

\* C28: no append to current_workers is lost: every call of
\* add_current_workers leaves its workers in current_workers, and no step
\* removes a worker from current_workers.
C28_NoAppendLost ==
    [][/\ Range(current_workers) \subseteq Range(current_workers')
       /\ (start_pc = "cur_w" /\ start_pc' = "recv") =>
             Range(start_cur) \subseteq Range(current_workers')
       /\ \A g \in GroupIds :
             (eng_pc[g] = "promote_w" /\ eng_pc'[g] # "promote_w") =>
                 Range(eng_rd[g].gw) \subseteq Range(current_workers')]_vars

\* C29: no update of old_categorizers is lost: a group whose goroutine has
\* removed it is not listed (it never reappears), and a group that was created
\* and has not yet removed itself is listed (it is never dropped).
C29_NoGroupUpdateLost ==
    \A g \in GroupIds :
        /\ eng_pc[g] = "done" => g \notin Range(old_categorizers)
        /\ eng_pc[g] \in {"fetch", "retry", "apply", "promote_r", "promote_w",
                          "delete_r", "delete_w"} => g \in Range(old_categorizers)

\* C30: while the baseline is unset (0, also after a first broadcast that
\* carried block number 0) Start is still waiting: no registration request has
\* been received, no worker is registered, no group exists and no catch-up
\* goroutine runs; so every goroutine that tests for promotion finds the
\* baseline set.
C30_NothingBeforeBaseline ==
    /\ subscribed_earliest_block_number = 0 =>
          /\ start_pc = "wait"
          /\ requests = 0
          /\ old_categorizers = << >>
          /\ current_workers = << >>
          /\ \A w \in Workers : reg[w] = "none"
          /\ \A g \in GroupIds : eng_pc[g] = "none" /\ groups[g] = EmptyGroup
    /\ \A g \in GroupIds : eng_pc[g] # "none" => subscribed_earliest_block_number # 0

\* C30 witness: the first broadcast accepted carried block number 0; the
\* baseline was set by a later one, and since then a request has been
\* processed and a group with a member has passed the promotion test.
C30_Witness ==
    /\ first_accepted = << 0 >>
    /\ subscribed_earliest_block_number # 0
    /\ requests > 0
    /\ \E g \in GroupIds : promotions[g] = 1 /\ groups[g].workers # << >>

\* ---------------------------------------------------------------- malformed broadcasts
\* The messages the subscriber socket can deliver: a payload ParseBroadcast
\* accepts or not, with at most one of the reply parameters read by subscribe
\* missing, carrying block number block of this network (own) or another.
Fields == {"block_number", "network_id", "block_timestamp", "logs"}
RawBroadcasts ==
    [parsable : BOOLEAN, missing : {{}} \cup { {f} : f \in Fields },
     block : Blocks, own : BOOLEAN]
Malformed(m) == ~m.parsable \/ m.missing # {}
NoRaw == [parsable |-> TRUE, missing |-> {}, block |-> 0, own |-> FALSE]

\* subscribe, lines 334-375: the first statement of the loop body that ends
\* the handling of message m with panic(err), or "none". A missing "logs"
\* parameter gives NewLogs a nil list; logs_err is whether NewLogs rejects it.
PanicsAt(m, baseline, logs_err) ==
    IF ~m.parsable THEN "ParseBroadcast"
    ELSE IF "block_number" \in m.missing THEN "block_number"
    ELSE IF "network_id" \in m.missing THEN "network_id"
    ELSE IF ~m.own \/ DiscardBroadcast(m.block, baseline) THEN "none"
    ELSE IF "block_timestamp" \in m.missing THEN "block_timestamp"
    ELSE IF "logs" \in m.missing /\ logs_err THEN "logs"
    ELSE "none"

\* subscribe, lines 352-362: the message got as far as the baseline test and
\* was not dropped there.
ReachesBaseline(m, baseline) ==
    /\ m.parsable
    /\ m.missing \cap {"block_number", "network_id"} = {}
    /\ m.own
    /\ ~DiscardBroadcast(m.block, baseline)

\* The subscriber goroutine with the socket delivering any message: one
\* iteration of the loop of lines 315-383. A panic ends the goroutine (and
\* the process); nothing recovers from it.
Ingest(m, logs_err) ==
    LET baseline == subscribed_earliest_block_number
        panics == PanicsAt(m, baseline, logs_err)
        pushes == ReachesBaseline(m, baseline) /\ panics = "none"
    IN  /\ wire.pc = "poll"
        /\ pushes => deliveries < MaxFeed
        /\ wire' = [pc |-> IF panics = "none" THEN "poll" ELSE "panicked",
                    raw |-> m, at |-> panics]
        /\ subscribed_earliest_block_number' =
              IF ReachesBaseline(m, baseline) /\ SetsBaseline(baseline)
              THEN m.block ELSE baseline
        /\ subscribed_blocks' =
              IF pushes THEN Push(subscribed_blocks, m.block) ELSE subscribed_blocks
        /\ deliveries' = IF pushes THEN deliveries + 1 ELSE deliveries
        /\ first_accepted' =
              IF pushes /\ first_accepted = << >> THEN << m.block >> ELSE first_accepted
        /\ msg' = [block |-> m.block, own |-> m.own]
        /\ UNCHANGED << current_workers, old_categorizers, groups, cbn, StartVars,
                        EngineVars, disp_pc, History, svc >>

InitIngest ==
    /\ wire = [pc |-> "poll", raw |-> NoRaw, at |-> "none"]
    /\ svc = NoService
    /\ ManagerInit

NextIngest == \E m \in RawBroadcasts, logs_err \in BOOLEAN : Ingest(m, logs_err)

SpecIngest == InitIngest /\ [][NextIngest]_vars

\* C31: a malformed broadcast leaves the baseline and subscribed_blocks
\* unchanged and the subscriber running, ready for the next message.
C31_MalformedIsNotFatal ==
    [][Malformed(wire'.raw) =>
          /\ UNCHANGED << subscribed_earliest_block_number, subscribed_blocks >>
          /\ wire'.pc = "poll"]_vars

\* ---------------------------------------------------------------- publish failures
\* lines 207-210 and 261-264: what the goroutine does when
\* manager.pusher.SendMessage returns an error: panic(err).
AfterSendError == "panicked"

\* The pusher's SendMessage has returned an error; the panic has ended the process.
Crashed == wire.pc = "send_failed"

\* categorize_current_smartcontracts, lines 241-264: the dispatcher pops a
\* block and passes it to the live workers in list order; the send for the
\* i-th one fails. The workers up to it have been categorized.
DispSendFails(i) ==
    /\ disp_pc = "drain"
    /\ subscribed_blocks # << >>
    /\ i \in 1..Len(current_workers)
    /\ LET b == Head(subscribed_blocks)
           reached == { current_workers[j] : j \in 1..i }
           takes(w) == w \in reached /\ ~SkipBlock(b, cbn[w])
       IN  /\ takes(current_workers[i])
           /\ subscribed_blocks' = Tail(subscribed_blocks)
           /\ cbn' = [w \in Workers |->
                        IF takes(w) THEN categorize(cbn[w], LiveLogs(b, w))
                        ELSE cbn[w]]
           /\ applied' = [w \in Workers |-> [x \in Blocks |->
                        IF takes(w) /\ x \in FreshLogs(cbn[w], LiveLogs(b, w))
                        THEN Min({2, applied[w][x] + 1}) ELSE applied[w][x]]]
           /\ live_history' = live_history
                 \cup { e \in {"skip_applied"} :
                          \E w \in reached : ~takes(w) /\ applied[w][b] >= 1 }
           /\ wire' = [pc |-> "send_failed", by |-> "dispatcher",
                       worker |-> current_workers[i]]
    /\ disp_pc' = AfterSendError
    /\ UNCHANGED << subscribed_earliest_block_number, current_workers,
                    old_categorizers, groups, SubVars, StartVars, EngineVars, svc >>

\* categorize_old_smartcontracts, lines 189-210: the goroutine of group g
\* applies the fetched logs to the members in list order; the send for the
\* i-th one fails. The members up to it have been categorized; line 213 is
\* not reached.
EngSendFails(g, i) ==
    /\ eng_pc[g] = "apply"
    /\ i \in 1..Len(groups[g].workers)
    /\ LET f == eng_fetch[g]
           all_logs == RemoteLogFilter(f.from, f.to, f.addrs)
           ws == groups[g].workers
           logs(w) == FilterByAddress(all_logs, w)
           reached == { ws[j] : j \in 1..i }
       IN  /\ logs(ws[i]) # {}
           /\ cbn' = [w \in Workers |->
                        IF w \in reached /\ logs(w) # {}
                        THEN categorize(cbn[w], logs(w)) ELSE cbn[w]]
           /\ applied' = [w \in Workers |-> [b \in Blocks |->
                        IF w \in reached /\ b \in FreshLogs(cbn[w], logs(w))
                        THEN Min({2, applied[w][b] + 1}) ELSE applied[w][b]]]
           /\ wire' = [pc |-> "send_failed", by |-> "engine", worker |-> ws[i]]
    /\ eng_pc' = [eng_pc EXCEPT ![g] = AfterSendError]
    /\ UNCHANGED << ManagerState, SubVars, StartVars, eng_fetch, eng_rd, promotions,
                    disp_pc, live_history, svc >>

\* The manager with a pusher whose SendMessage may fail, after a feed of at
\* most MaxFairFeed blocks. A panic ends every goroutine.
NextPublish ==
    /\ ~Crashed
    /\ \/ \E b \in Blocks : FairBroadcast(b)
       \/ StartStep
       \/ EngineStep
       \/ DispatcherStep
       \/ \E i \in 1..NumWorkers : DispSendFails(i)
       \/ \E g \in GroupIds, i \in 1..NumWorkers : EngSendFails(g, i)

SpecPublish == Init /\ [][NextPublish]_vars

\* C32: a failed SendMessage is not fatal: the worker keeps the watermark it
\* advanced to, and neither the live dispatcher nor a catch-up goroutine is
\* ended by it.
C32_SendFailureNotFatal ==
    [][(wire'.pc = "send_failed" /\ wire.pc # "send_failed") =>
          /\ cbn'[wire'.worker] >= cbn[wire'.worker]
          /\ disp_pc' # "panicked"
          /\ \A g \in GroupIds : eng_pc'[g] # "panicked"]_vars

\* C33: a registration request that carries workers, all of them at or above
\* the baseline, creates no group and starts no catch-up goroutine: the step
\* of Start that handles its (empty) list of catch-up workers leaves
\* old_categorizers and the goroutines as they were, and no listed group is
\* without a member after it.
C33_NoGroupWithoutCatchUpWorkers ==
    [][(start_pc \in {"new_group", "add_workers"} /\ start_pc' = "cur_r"
           /\ start_old = << >> /\ start_cur # << >>) =>
          /\ old_categorizers' = old_categorizers
          /\ eng_pc' = eng_pc
          /\ \A g \in Range(old_categorizers') :
                 groups[g].workers # << >> => groups'[g].workers # << >>
          /\ \A g \in Range(old_categorizers') \ Range(old_categorizers) :
                 groups'[g].workers # << >>]_vars

\* What C34 says of a Service whose Start has ended: the order of the steps,
\* the clean-up after a failure, the result after success.
StartOutcomeAsClaimed ==
    /\ svc.started # << >> =>
          svc.config /\ svc.dep_manager /\ svc.proxy_handler /\ svc.manager # "nil"
    /\ svc.manager \in {"running", "closed"} => Range(svc.started) = svc.Handlers
    /\ svc.ret # "ok" =>
          /\ svc.ret = "error"
          /\ svc.blocker = "nil"
          /\ svc.ctx_closed
          /\ svc.closed = Range(svc.started)
          /\ svc.manager # "running"
    /\ svc.ret = "ok" =>
          /\ svc.blocker = "1"
          /\ svc.closed = {} /\ ~svc.ctx_closed
          /\ svc.manager = "running"

\* C34: Service.Start starts the handlers only after setConfig,
\* StartDepManager, StartProxyHandler and newManager, the manager only after
\* every handler; whatever step fails it returns an error and a nil
\* WaitGroup with the context closed, the started handlers closed and a
\* running manager closed; on success a WaitGroup of 1 and nothing closed.
C34_StartOrderAndCleanup ==
    svc.pc = "returned" => StartOutcomeAsClaimed

\* C34 (where the source decides it): the same, for every call of Start in
\* which the clean-up does not call Running on a nil manager, that is, which
\* succeeds or fails after newManager has succeeded.
C34_StartOrderAndCleanupWithManager ==
    (svc.pc = "returned" /\ svc.Handlers # {} /\ svc.manager # "nil") =>
        StartOutcomeAsClaimed

====
